---- MODULE Spec2Model ----
(***************************************************************************)
(* Shell.c: the WS-Management Shell provider.  The provider keeps a linked *)
(* list of ShellData objects, each with at most one CommandData, and hands *)
(* the reply channel (MI_Context) of a pending Receive from one call to    *)
(* the next through CommandData.receiveContext.                            *)
(*                                                                         *)
(* Heap objects are modelled by cells: shellMem[a] / cmdMem[a] keep the    *)
(* bytes of cell a, also after free() (a freed cell keeps its last         *)
(* contents until calloc() hands it out again, zeroed).  A call whose      *)
(* handler stores its MI_Context, or returns without posting a result on   *)
(* it, gets a record in `calls` and its context is the record's index; the *)
(* context of any other call is used by its own handler alone, and what    *)
(* the handler posted on it is in `last`.  NULL is 0.                      *)
(***************************************************************************)
EXTENDS Integers, Sequences, FiniteSets, TLC

\* ------------------------------------------------------------------ bounds
NumShells == 3      \* heap cells calloc() can place a ShellData in
NumCmds == 2        \* heap cells calloc() can place a CommandData in
MaxCalls == 2       \* provider calls the clients make in one behaviour
NumThreads == 2     \* threads the host serves calls on at the same time

\* the width of a USHORT in bits, scaled down from 16, and the longest buffer
\* handed to the codec
UShortBits == 1
MaxLen == 5

\* the width of an MI_Uint32 in bits, scaled down from 32
UInt32Bits == 4

\* ------------------------------------------------------------------ constants
NULL == 0

ShellAddr == 1..NumShells
CmdAddr == 1..NumCmds

MI_RESULT_OK == "OK"
MI_RESULT_FAILED == "FAILED"
MI_RESULT_INVALID_PARAMETER == "INVALID_PARAMETER"
MI_RESULT_NOT_FOUND == "NOT_FOUND"
MI_RESULT_NOT_SUPPORTED == "NOT_SUPPORTED"
MI_RESULT_ALREADY_EXISTS == "ALREADY_EXISTS"
MI_RESULT_SERVER_LIMITS_EXCEEDED == "SERVER_LIMITS_EXCEEDED"

CommandState_Done == "Done"
CommandState_Running == "Running"

\* What an undefined access does: the access faults and the process dies
\* ("trap"), or it goes through and the code runs on with what is in memory
\* ("run").  Every action with such an access takes the outcome as an input.
UBOutcomes == {"trap", "run"}

\* space-delimited OutputStreams declarations a CreateInstance request carries
StreamDecls == {<<>>, <<"stdout", "stderr">>}
\* streamName.value of a Send request
StreamNames == {"stdin", "stdout"}
\* data.value of a Send request: absent, well-formed text carrying payload
\* P1, text that is not base64, base64 text whose chunk headers are corrupt
SendData == {"none", "P1", "bad64", "badchunk"}

\* streamName, endOfStream and data of a Send request; the stream name is
\* looked at only when endOfStream is set
StreamIn ==
    {[streamName |-> n, endOfStream |-> e, data |-> d] :
        n \in StreamNames, e \in BOOLEAN, d \in SendData}
    \ {[streamName |-> "stdout", endOfStream |-> FALSE, data |-> d] : d \in SendData}

RECURSIVE Hex(_)
\* Stprintf(id, ID_LENGTH, "%llx", address): the hex digits of the address
Hex(n) == IF n < 16 THEN <<n>> ELSE Append(Hex(n \div 16), n % 16)

\* shell ids a request can name: every cell's id and one that no shell has
ShellIds == {Hex(n) : n \in 0..NumShells}
\* commandId.exists and commandId.value of a request: no command id, every
\* cell's id and one that no command has
CommandRefs ==
    {<<FALSE, <<>>>>} \cup {<<TRUE, Hex(n)>> : n \in 0..NumCmds}
\* OutputStreams and IsCompressed of a CreateInstance request, and the
\* allocation that fails while it is served
CreateIn ==
    {[exists |-> FALSE, streams |-> <<>>, compressed |-> FALSE, alloc |-> "ok"]}
    \cup {[exists |-> TRUE, streams |-> s, compressed |-> c, alloc |-> a] :
            s \in StreamDecls, c \in BOOLEAN, a \in {"ok", "calloc", "extract"}}

VARIABLES
    shellList,      \* Shell_Self.shellList: head of the list of shells
    shellMem,       \* ShellData cells
    cmdMem,         \* CommandData cells
    pendShell,      \* shells whose WSMAN_PLUGIN_SHELL request the backend holds
    pendCmd,        \* commands whose WSMAN_PLUGIN_COMMAND request the backend holds
    calls,          \* the calls whose MI_Context the provider stored or left
                    \* unanswered; a context is the index of its call
    crashed,        \* the process died on a faulting access
    callsLeft,      \* provider calls the clients still make
    last,           \* the call or callback that ran last, with its inputs
    thread          \* the calls in progress when handlers run side by side: for
                    \* each thread the handler it is in, how far it got, its
                    \* context, the shell id of its request and its locals
                    \* receiveContext, thisShell and previous (the node whose
                    \* nextShell `previous` points at, NULL for &self->shellList)

vars == <<shellList, shellMem, cmdMem, pendShell, pendCmd, calls, crashed, callsLeft, last,
          thread>>

Threads == 1..NumThreads

\* a thread that is in no handler
Idle == [op |-> "none", pc |-> "idle", context |-> NULL, command |-> NULL,
         receiveContext |-> NULL, res |-> "NONE",
         shellId |-> <<>>, thisShell |-> NULL, previous |-> NULL]

\* calloc(1, sizeof(ShellData) + ...): a zeroed ShellData
ZeroShell ==
    [live |-> FALSE, nextShell |-> NULL, command |-> NULL, outboundStreamNames |-> <<>>,
     isCompressed |-> FALSE, requestContext |-> NULL, pluginShellContext |-> NULL]

\* calloc(1, sizeof(CommandData) + ...): a zeroed CommandData
ZeroCommand ==
    [live |-> FALSE, shellData |-> NULL, streamName |-> <<>>, done |-> <<>>,
     commandContext |-> NULL, receiveContext |-> NULL, pluginCommandContext |-> NULL]

\* The record of a call that has been dispatched and has posted nothing yet:
\*   nres   number of MI_Context_PostResult calls on its context
\*   nrcv   number of Shell_Receive instances posted on its context
NewCall(op) == [op |-> op, nres |-> 0, nrcv |-> 0]

\* the inputs of a call; what a call does not carry is left at these values
NoIn ==
    [shellId |-> <<>>, cmd |-> FALSE, commandId |-> <<>>,
     streamName |-> "", endOfStream |-> FALSE, data |-> "none", errorCode |-> 0]
ShellIn(shellId) == [NoIn EXCEPT !.shellId = shellId]
CmdIn(shellId, cmd, commandId) ==
    [NoIn EXCEPT !.shellId = shellId, !.cmd = cmd, !.commandId = commandId]

\* The step that ran last: the call or callback, its context if it has a
\* record in `calls` (else NULL), its inputs, and what it did:
\*   res      the result posted on the call's own context ("NONE": nothing)
\*   fwd      it handed a request to the backend (WSMAN_PLUGIN_*)
\*   nullUse  it used a NULL MI_Context and the access went through
\*   to       the receive context it took out of a command (NULL: none)
\*   toRes    the result it posted on that context ("NONE": nothing)
\*   rcv      the Shell_Receive instance it posted on that context, if any
Step(op, ctx, in, res, fwd, nullUse) ==
    [op |-> op, ctx |-> ctx, in |-> in, res |-> res, fwd |-> fwd, nullUse |-> nullUse,
     to |-> NULL, toRes |-> "NONE", rcv |-> <<>>]

\* a step that took receive context `to` and posted rcv and toRes on it
Delivering(step, to, toRes, rcv) ==
    IF to = NULL THEN step
    ELSE [step EXCEPT !.to = to, !.toRes = toRes, !.rcv = rcv]

\* MI_Context_PostResult(context, result) on a context that is not NULL
MI_Context_PostResult(cs, context, result) ==
    [cs EXCEPT ![context].nres = @ + 1]

\* Shell_Receive_Post(&receive, context) on a context that is not NULL; the
\* instance posted is kept in `last`
Shell_Receive_Post(cs, context) ==
    [cs EXCEPT ![context].nrcv = @ + 1]

Init ==
    /\ shellList = NULL
    /\ shellMem = [a \in ShellAddr |-> ZeroShell]
    /\ cmdMem = [a \in CmdAddr |-> ZeroCommand]
    /\ pendShell = {}
    /\ pendCmd = {}
    /\ calls = <<>>
    /\ crashed = FALSE
    /\ callsLeft = MaxCalls
    /\ last = Step("Load", NULL, NoIn, "NONE", FALSE, FALSE)
    /\ thread = [t \in Threads |-> Idle]

\* the provider takes another call and serves it from start to end: the
\* process is alive and no other handler is running
CanCall ==
    /\ ~crashed
    /\ callsLeft > 0
    /\ callsLeft' = callsLeft - 1
    /\ \A t \in Threads : thread[t].pc \in {"idle", "done"}
    /\ UNCHANGED thread

FreeShells == {a \in ShellAddr : ~shellMem[a].live}
FreeCmds == {a \in CmdAddr : ~cmdMem[a].live}

\* every cell gets the id of the first cell
FirstId(a) == Hex(1)

\* thisShell->shellId: the string is stored behind the ShellData, in its cell
ShellIdOf(a) == Hex(a)
\* thisShell->command->commandId, stored behind the CommandData
CommandIdOf(a) == Hex(a)

RECURSIVE Walk(_, _, _)
\* The nodes the loop of FindShell / Shell_DeleteInstance visits from p, the
\* node it stops at included, following at most n links.
Walk(p, shellId, n) ==
    IF p = NULL \/ n = 0 THEN <<>>
    ELSE IF ShellIdOf(p) = shellId THEN <<p>>
    ELSE <<p>> \o Walk(shellMem[p].nextShell, shellId, n - 1)

Visited(shellId) == Walk(shellList, shellId, NumShells + 1)

\* FindShell(self, shellId): the shell with that id, or NULL
FindShell(shellId) ==
    LET w == Visited(shellId)
    IN IF w # <<>> /\ ShellIdOf(w[Len(w)]) = shellId THEN w[Len(w)] ELSE NULL

\* the walk reads a node that was freed (a dangling nextShell or shellList)
WalkReadsFreed(shellId) ==
    \E i \in DOMAIN Visited(shellId) : ~shellMem[Visited(shellId)[i]].live

\* the walk never ends: the list has a cycle and no node has the id
WalkLoops(shellId) ==
    Len(Visited(shellId)) = NumShells + 1 /\ FindShell(shellId) = NULL

\* A handler dies (or hangs) before it posts anything: the call stays
\* unanswered and no further call is served.
Crash(op, in) ==
    /\ crashed' = TRUE
    /\ last' = Step(op, NULL, in, "NONE", FALSE, FALSE)
    /\ UNCHANGED <<shellList, shellMem, cmdMem, pendShell, pendCmd, calls>>

\* A handler that only posts `result` on its own context.
ReplyOnly(op, in, result) ==
    /\ last' = Step(op, NULL, in, result, FALSE, FALSE)
    /\ UNCHANGED <<shellList, shellMem, cmdMem, pendShell, pendCmd, calls, crashed>>

\* Shell_CreateInstance.  exists: OutputStreams.exists; alloc: which
\* allocation fails ("calloc", "extract": the malloc of ExtractOutboundStreams)
\* or "ok".  The request context is stored nowhere.
Shell_CreateInstance(exists, streams, compressed, alloc) ==
    /\ CanCall
    /\ IF ~exists
       THEN ReplyOnly("CreateInstance", NoIn, MI_RESULT_INVALID_PARAMETER)
       ELSE IF alloc = "calloc" \/ FreeShells = {}
       THEN ReplyOnly("CreateInstance", NoIn, MI_RESULT_SERVER_LIMITS_EXCEEDED)
       ELSE \E thisShell \in FreeShells :
            IF alloc = "extract"
            THEN /\ shellMem' = [shellMem EXCEPT ![thisShell] = ZeroShell]
                 /\ last' = Step("CreateInstance", NULL, NoIn,
                                 MI_RESULT_SERVER_LIMITS_EXCEEDED, FALSE, FALSE)
                 /\ UNCHANGED <<shellList, cmdMem, pendShell, pendCmd, calls, crashed>>
            ELSE /\ shellMem' = [shellMem EXCEPT ![thisShell] =
                        [ZeroShell EXCEPT !.live = TRUE, !.nextShell = shellList,
                                          !.outboundStreamNames = streams,
                                          !.isCompressed = compressed]]
                 /\ shellList' = thisShell
                 /\ pendShell' = pendShell \cup {thisShell}
                 /\ calls' = Append(calls, NewCall("CreateInstance"))
                 /\ last' = Step("CreateInstance", Len(calls) + 1, NoIn, "NONE", TRUE, FALSE)
                 /\ UNCHANGED <<cmdMem, pendCmd, crashed>>

\* the shell stays where it is in the list
SkipNothing(thisShell) == thisShell

\* *previous = thisShell->nextShell: what the link before thisShell is set to
SkipTo(thisShell) == shellMem[thisShell].nextShell

\* Shell_DeleteInstance: unlink the shell with the id and free it.  An
\* attached command is neither looked at nor freed.
Shell_DeleteInstance(shellId, ub) ==
    /\ CanCall
    /\ LET thisShell == FindShell(shellId)
           w == Visited(shellId)
       IN
       IF WalkLoops(shellId) \/ (WalkReadsFreed(shellId) /\ ub = "trap")
       THEN Crash("DeleteInstance", ShellIn(shellId))
       ELSE IF thisShell = NULL
       THEN ReplyOnly("DeleteInstance", ShellIn(shellId), MI_RESULT_NOT_FOUND)
       ELSE /\ IF Len(w) = 1
               THEN /\ shellList' = SkipTo(thisShell)
                    /\ shellMem' = [shellMem EXCEPT ![thisShell].live = FALSE]
               ELSE /\ shellList' = shellList
                    /\ shellMem' = [shellMem EXCEPT
                            ![w[Len(w) - 1]].nextShell = SkipTo(thisShell),
                            ![thisShell].live = FALSE]
            /\ last' = Step("DeleteInstance", NULL, ShellIn(shellId),
                            MI_RESULT_OK, FALSE, FALSE)
            /\ UNCHANGED <<cmdMem, pendShell, pendCmd, calls, crashed>>

\* the list walk of FindShell does not come back with an answer
BadWalk(shellId, ub) ==
    WalkLoops(shellId) \/ (WalkReadsFreed(shellId) /\ ub = "trap")

\* thisShell->command-> ... faults: the pointer is NULL or the cell is freed
BadCommand(command, ub) ==
    (command = NULL \/ ~cmdMem[command].live) /\ ub = "trap"

\* the command id of the request is not compared
AnyCommandId(command, commandId) == command # NULL

\* Tcscmp(commandId, thisShell->command->commandId) == 0; what is read
\* through a NULL command pointer compares unequal
SameCommandId(command, commandId) ==
    command # NULL /\ CommandIdOf(command) = commandId

\* Shell_Command_Clone(&command, ...) clones a local that was never
\* constructed: it succeeds, fails or faults.
CloneOutcomes == {"ok", "fail", "trap"}

\* Shell_Invoke_Command.  alloc: calloc succeeds ("ok") or fails ("calloc").
\* The error path frees thisShell->command whatever the error was.
Shell_Invoke_Command(shellId, alloc, clone, ub) ==
    /\ CanCall
    /\ LET thisShell == FindShell(shellId)
           context == Len(calls) + 1
           in == ShellIn(shellId)
           op == "Command"
       IN
       IF BadWalk(shellId, ub) THEN Crash(op, in)
       ELSE IF thisShell = NULL
       THEN \* error: thisShell->command->commandInstance through NULL
            IF ub = "trap" THEN Crash(op, in)
            ELSE ReplyOnly(op, in, MI_RESULT_NOT_FOUND)
       ELSE IF shellMem[thisShell].command # NULL
       THEN \* error: the command that exists is deleted
            LET old == shellMem[thisShell].command IN
            IF BadCommand(old, ub) THEN Crash(op, in)
            ELSE /\ cmdMem' = [cmdMem EXCEPT ![old].live = FALSE]
                 /\ shellMem' = [shellMem EXCEPT ![thisShell].command = NULL]
                 /\ last' = Step(op, NULL, in, MI_RESULT_ALREADY_EXISTS, FALSE, FALSE)
                 /\ UNCHANGED <<shellList, pendShell, pendCmd, calls, crashed>>
       ELSE IF alloc = "calloc" \/ FreeCmds = {}
       THEN \* thisShell->command = NULL; error: thisShell->command->commandInstance
            IF ub = "trap" THEN Crash(op, in)
            ELSE ReplyOnly(op, in, MI_RESULT_SERVER_LIMITS_EXCEEDED)
       ELSE IF clone = "trap" THEN Crash(op, in)
       ELSE \E command \in FreeCmds :
            LET new == [ZeroCommand EXCEPT
                           !.shellData = thisShell,
                           !.streamName = shellMem[thisShell].outboundStreamNames,
                           !.done = [i \in DOMAIN shellMem[thisShell].outboundStreamNames
                                        |-> FALSE],
                           !.receiveContext = context]
            IN
            IF clone = "fail"
            THEN /\ cmdMem' = [cmdMem EXCEPT ![command] = new]
                 /\ calls' = MI_Context_PostResult(Append(calls, NewCall(op)), context,
                                 MI_RESULT_FAILED)
                 /\ last' = Step(op, context, in, MI_RESULT_FAILED, FALSE, FALSE)
                 /\ UNCHANGED <<shellList, shellMem, pendShell, pendCmd, crashed>>
            ELSE /\ cmdMem' = [cmdMem EXCEPT ![command] = [new EXCEPT !.live = TRUE]]
                 /\ shellMem' = [shellMem EXCEPT ![thisShell].command = command]
                 /\ pendCmd' = pendCmd \cup {command}
                 /\ calls' = Append(calls, NewCall(op))
                 /\ last' = Step(op, context, in, "NONE", TRUE, FALSE)
                 /\ UNCHANGED <<shellList, pendShell, crashed>>

\* the slot is taken without being emptied
KeepReceiveContext(cm, command) == cm

\* receiveContext = thisShell->command->receiveContext;
\* thisShell->command->receiveContext = NULL: the cells after the take
TakeReceiveContext(cm, command) == [cm EXCEPT ![command].receiveContext = NULL]

\* no Receive is ever seen as pending
NeverPending(command) == FALSE

\* if (thisShell->command->receiveContext): a Receive is pending on the command
ReceivePending(command) == cmdMem[command].receiveContext # NULL

\* Shell_Invoke_Receive: install the call's context as the pending Receive.
Shell_Invoke_Receive(shellId, cmd, commandId, ub) ==
    /\ CanCall
    /\ LET thisShell == FindShell(shellId)
           context == Len(calls) + 1
           in == CmdIn(shellId, cmd, commandId)
           op == "Receive"
       IN
       IF BadWalk(shellId, ub) THEN Crash(op, in)
       ELSE IF thisShell = NULL THEN ReplyOnly(op, in, MI_RESULT_NOT_FOUND)
       ELSE IF ~cmd THEN ReplyOnly(op, in, MI_RESULT_NOT_SUPPORTED)
       ELSE LET command == shellMem[thisShell].command IN
            IF BadCommand(command, ub) THEN Crash(op, in)
            ELSE IF ~SameCommandId(command, commandId)
            THEN ReplyOnly(op, in, MI_RESULT_NOT_FOUND)
            ELSE IF ReceivePending(command)
            THEN ReplyOnly(op, in, MI_RESULT_ALREADY_EXISTS)
            ELSE /\ cmdMem' = [cmdMem EXCEPT ![command].receiveContext = context]
                 /\ calls' = Append(calls, NewCall(op))
                 /\ last' = Step(op, context, in, "NONE", TRUE, FALSE)
                 /\ UNCHANGED <<shellList, shellMem, pendShell, pendCmd, crashed>>

\* both stages accept whatever they are given
AlwaysDecodes(data, isCompressed) == MI_RESULT_OK

\* Base64DecodeBuffer, then DecompressBuffer when the shell is compressed,
\* on the data of a Send: the MI_Result of the two stages
DecodeSendData(data, isCompressed) ==
    IF data = "bad64" THEN MI_RESULT_FAILED
    ELSE IF data = "badchunk" /\ isCompressed THEN MI_RESULT_FAILED
    ELSE MI_RESULT_OK

\* The loop of lines 890-897: the first stream whose name makes Tcscmp return
\* non-zero is marked done.
MarkDone(streamName, names, done) ==
    LET hit == {i \in DOMAIN names : names[i] # streamName}
    IN IF hit = {} THEN done
       ELSE [done EXCEPT ![CHOOSE i \in hit : \A j \in hit : i <= j] = TRUE]

\* The Shell_Receive instance Send builds: the command state and one Stream
\* with endOfStream, streamName and commandId set; Stream.data is never set.
SendReceiveResult(in) ==
    [CommandState |-> IF in.endOfStream THEN CommandState_Done ELSE CommandState_Running,
     Stream |-> <<[streamName |-> in.streamName, endOfStream |-> in.endOfStream,
                   data |-> "none"]>>]

\* Shell_Invoke_Send: take the pending receive context, mark the stream,
\* decode and forward the data, post the receive result on the taken context.
\* The stream fields of the request are read once shell and command are
\* resolved.
Shell_Invoke_Send(shellId, cmd, commandId, ub) ==
    /\ CanCall
    /\ LET thisShell == FindShell(shellId)
           context == Len(calls) + 1
           in0 == CmdIn(shellId, cmd, commandId)
           op == "Send"
       IN
       IF BadWalk(shellId, ub) THEN Crash(op, in0)
       ELSE IF thisShell = NULL THEN ReplyOnly(op, in0, MI_RESULT_NOT_FOUND)
       ELSE IF ~cmd THEN ReplyOnly(op, in0, MI_RESULT_NOT_SUPPORTED)
       ELSE LET command == shellMem[thisShell].command IN
            IF BadCommand(command, ub) THEN Crash(op, in0)
            ELSE IF ~SameCommandId(command, commandId)
            THEN ReplyOnly(op, in0, MI_RESULT_NOT_FOUND)
            ELSE \E sd \in StreamIn :
                 LET in == [in0 EXCEPT !.streamName = sd.streamName,
                                       !.endOfStream = sd.endOfStream,
                                       !.data = sd.data]
                     receiveContext == cmdMem[command].receiveContext
                     miResult == IF in.data = "none" THEN MI_RESULT_OK
                                 ELSE DecodeSendData(in.data,
                                          shellMem[thisShell].isCompressed)
                     taken == [TakeReceiveContext(cmdMem, command) EXCEPT
                                  ![command].done =
                                      IF in.endOfStream
                                      THEN MarkDone(in.streamName,
                                               cmdMem[command].streamName, @)
                                      ELSE @]
                     cs1 == IF receiveContext # NULL /\ miResult = MI_RESULT_OK
                            THEN Shell_Receive_Post(calls, receiveContext)
                            ELSE calls
                     cs2 == IF receiveContext # NULL
                            THEN MI_Context_PostResult(cs1, receiveContext, miResult)
                            ELSE cs1
                 IN
                 \* CommandState_Construct(&commandState, NULL)
                 IF receiveContext = NULL /\ ub = "trap" THEN Crash(op, in)
                 ELSE /\ cmdMem' = taken
                      /\ calls' = cs2
                      /\ last' = Delivering(
                                      Step(op, NULL, in, miResult,
                                           in.data # "none" /\ miResult = MI_RESULT_OK,
                                           receiveContext = NULL),
                                      receiveContext, miResult,
                                      IF miResult = MI_RESULT_OK
                                      THEN <<SendReceiveResult(in)>> ELSE <<>>)
                      /\ UNCHANGED <<shellList, shellMem, pendShell, pendCmd, crashed>>

\* The Shell_Receive instance Signal builds: state Done, and a Stream with
\* only its name (and the commandId) set unless stream 0 is marked done.
SignalReceiveResult(done0, name0) ==
    [CommandState |-> CommandState_Done,
     Stream |-> IF done0 THEN <<>>
                ELSE <<[streamName |-> name0, endOfStream |-> FALSE, data |-> "none"]>>]

\* Shell_Invoke_Signal: complete a pending Receive, then free the command.
\* The error label frees the command as well.
Shell_Invoke_Signal(shellId, cmd, commandId, ub) ==
    /\ CanCall
    /\ LET thisShell == FindShell(shellId)
           context == Len(calls) + 1
           in == CmdIn(shellId, cmd, commandId)
           op == "Signal"
       IN
       IF BadWalk(shellId, ub) THEN Crash(op, in)
       ELSE IF thisShell = NULL
       THEN \* error: free(thisShell->command) through NULL
            IF ub = "trap" THEN Crash(op, in)
            ELSE ReplyOnly(op, in, MI_RESULT_NOT_FOUND)
       ELSE LET command == shellMem[thisShell].command IN
            IF BadCommand(command, ub) THEN Crash(op, in)
            ELSE IF cmd /\ ~SameCommandId(command, commandId)
            THEN \* error: the attached command is freed, its Receive with it
                 /\ cmdMem' = IF command = NULL THEN cmdMem
                              ELSE [cmdMem EXCEPT ![command].live = FALSE]
                 /\ shellMem' = [shellMem EXCEPT ![thisShell].command = NULL]
                 /\ last' = Step(op, NULL, in, MI_RESULT_NOT_FOUND, FALSE, FALSE)
                 /\ UNCHANGED <<shellList, pendShell, pendCmd, calls, crashed>>
            ELSE IF command = NULL
            THEN \* no commandId, no command: what is read through NULL is zero
                 /\ last' = Step(op, NULL, in, MI_RESULT_OK, FALSE, FALSE)
                 /\ UNCHANGED <<shellList, shellMem, cmdMem, pendShell, pendCmd, calls,
                                crashed>>
            ELSE LET receiveContext == cmdMem[command].receiveContext
                     names == cmdMem[command].streamName
                 IN
                 \* outboundStreams[0] of a command without streams lies behind
                 \* its allocation: the read faults or yields any value
                 IF receiveContext # NULL /\ names = <<>> /\ ub = "trap"
                 THEN Crash(op, in)
                 ELSE \E garbage \in IF receiveContext # NULL /\ names = <<>>
                                     THEN BOOLEAN ELSE {FALSE} :
                      LET done0 == IF names = <<>> THEN garbage
                                   ELSE cmdMem[command].done[1]
                          name0 == IF names = <<>> THEN "" ELSE names[1]
                          cs1 == IF receiveContext = NULL THEN calls
                                 ELSE MI_Context_PostResult(
                                          Shell_Receive_Post(calls, receiveContext),
                                          receiveContext, MI_RESULT_OK)
                      IN
                      /\ cmdMem' = [(IF ReceivePending(command)
                                       THEN TakeReceiveContext(cmdMem, command)
                                       ELSE cmdMem) EXCEPT ![command].live = FALSE]
                      /\ shellMem' = [shellMem EXCEPT ![thisShell].command = NULL]
                      /\ calls' = cs1
                      /\ last' = Delivering(
                                      Step(op, NULL, in, MI_RESULT_OK, FALSE, FALSE),
                                      receiveContext, MI_RESULT_OK,
                                      <<SignalReceiveResult(done0, name0)>>)
                      /\ UNCHANGED <<shellList, pendShell, pendCmd, crashed>>

\* A backend callback dies on a faulting access.
CrashCallback(op, in) ==
    /\ crashed' = TRUE
    /\ last' = Step(op, NULL, in, "NONE", FALSE, FALSE)
    /\ UNCHANGED <<shellList, shellMem, cmdMem, pendShell, pendCmd, calls, callsLeft, thread>>

\* WSManPluginReportContext for the request of a command.  CommonData.isShell
\* is never written, so the command branch runs; commandContext is never
\* written either, so the instance and the result are posted on NULL.  When
\* the post on NULL returns an error the command is freed and then detached
\* through the freed cell's shellData.
ReportCommandContext(thisCommand, ub) ==
    /\ ~crashed
    /\ thisCommand \in pendCmd
    /\ LET in == CmdIn(<<>>, TRUE, CommandIdOf(thisCommand))
           shellData == cmdMem[thisCommand].shellData
       IN
       IF ub = "trap" THEN CrashCallback("ReportContext", in)
       ELSE /\ cmdMem' = [cmdMem EXCEPT ![thisCommand].pluginCommandContext = 1,
                                        ![thisCommand].live = FALSE]
            /\ shellMem' = IF shellData = NULL THEN shellMem
                           ELSE [shellMem EXCEPT ![shellData].command = NULL]
            /\ pendCmd' = pendCmd \ {thisCommand}
            /\ last' = Step("ReportContext", NULL, in, "NONE", FALSE, TRUE)
            /\ UNCHANGED <<shellList, pendShell, calls, crashed, callsLeft, thread>>

\* WSManPluginReportContext for the request of a shell.  The byte read as
\* CommonData.isShell is the first byte of ShellData.nextShell: zero when
\* nextShell is NULL, else whatever the address has there (isShell).
\* Shell branch: requestContext is never written, so the instance is posted
\* on NULL; when that returns an error the list head is set to
\* thisShell->nextShell and the shell is freed.  Command branch: the ShellData
\* is used as a CommandData.
ReportShellContext(thisShell, isShell, ub) ==
    /\ ~crashed
    /\ thisShell \in pendShell
    /\ LET in == ShellIn(ShellIdOf(thisShell)) IN
       IF ub = "trap" THEN CrashCallback("ReportContext", in)
       ELSE IF isShell /\ shellMem[thisShell].nextShell # NULL
       THEN /\ shellMem' = [shellMem EXCEPT ![thisShell].pluginShellContext = 1,
                                            ![thisShell].live = FALSE]
            /\ shellList' = shellMem[thisShell].nextShell
            /\ pendShell' = pendShell \ {thisShell}
            /\ last' = Step("ReportContext", NULL, in, "NONE", FALSE, TRUE)
            /\ UNCHANGED <<cmdMem, pendCmd, calls, crashed, callsLeft, thread>>
       ELSE /\ pendShell' = pendShell \ {thisShell}
            /\ last' = Step("ReportContext", NULL, in, "NONE", FALSE, FALSE)
            /\ UNCHANGED <<shellList, shellMem, cmdMem, pendCmd, calls, crashed, callsLeft,
                           thread>>

\* errorCode of WSManPluginOperationComplete: 0, or the error the backend
\* rejects the request with
ErrorCodes == {0, 1}

\* WSManPluginOperationComplete: returns 0, whatever the errorCode; the
\* backend drops the request.
WSManPluginOperationComplete(isCommand, request, errorCode) ==
    /\ ~crashed
    /\ IF isCommand THEN request \in pendCmd ELSE request \in pendShell
    /\ pendCmd' = IF isCommand THEN pendCmd \ {request} ELSE pendCmd
    /\ pendShell' = IF isCommand THEN pendShell ELSE pendShell \ {request}
    /\ last' = Step("OperationComplete", NULL,
                    [(IF isCommand THEN CmdIn(<<>>, TRUE, CommandIdOf(request))
                      ELSE ShellIn(ShellIdOf(request))) EXCEPT !.errorCode = errorCode],
                    "NONE", FALSE, FALSE)
    /\ UNCHANGED <<shellList, shellMem, cmdMem, calls, crashed, callsLeft, thread>>

\* WSManPluginReportContext(requestDetails, flags, context)
WSManPluginReportContext ==
    \/ \E thisCommand \in CmdAddr, ub \in UBOutcomes :
          ReportCommandContext(thisCommand, ub)
    \/ \E thisShell \in ShellAddr, isShell \in BOOLEAN, ub \in UBOutcomes :
          ReportShellContext(thisShell, isShell, ub)

Next ==
    \/ \E in \in CreateIn :
          Shell_CreateInstance(in.exists, in.streams, in.compressed, in.alloc)
    \/ \E shellId \in ShellIds, ub \in UBOutcomes : Shell_DeleteInstance(shellId, ub)
    \/ \E shellId \in ShellIds, alloc \in {"ok", "calloc"}, clone \in CloneOutcomes,
          ub \in UBOutcomes : Shell_Invoke_Command(shellId, alloc, clone, ub)
    \/ \E shellId \in ShellIds, ref \in CommandRefs, ub \in UBOutcomes :
          Shell_Invoke_Receive(shellId, ref[1], ref[2], ub)
    \/ \E shellId \in ShellIds, ref \in CommandRefs, ub \in UBOutcomes :
          Shell_Invoke_Send(shellId, ref[1], ref[2], ub)
    \/ \E shellId \in ShellIds, ref \in CommandRefs, ub \in UBOutcomes :
          Shell_Invoke_Signal(shellId, ref[1], ref[2], ub)
    \/ WSManPluginReportContext
    \/ \E isCommand \in BOOLEAN, request \in ShellAddr \cup CmdAddr,
          errorCode \in ErrorCodes :
          WSManPluginOperationComplete(isCommand, request, errorCode)

Spec == Init /\ [][Next]_vars

\* The provider after Shell_CreateInstance(streams, compressed) and
\* Shell_Invoke_Command on the new shell went through and the backend is done
\* with both requests (WSManPluginOperationComplete): what Init reaches by
\* these two calls and two callbacks.
AttachedState(streams, compressed) ==
    /\ shellList = 1
    /\ shellMem = [a \in ShellAddr |->
                     IF a = 1
                     THEN [ZeroShell EXCEPT !.live = TRUE, !.command = 1,
                                            !.outboundStreamNames = streams,
                                            !.isCompressed = compressed]
                     ELSE ZeroShell]
    /\ cmdMem = [a \in CmdAddr |->
                   IF a = 1
                   THEN [ZeroCommand EXCEPT !.live = TRUE, !.shellData = 1,
                                            !.streamName = streams,
                                            !.done = [i \in DOMAIN streams |-> FALSE],
                                            !.receiveContext = 2]
                   ELSE ZeroCommand]
    /\ pendShell = {}
    /\ pendCmd = {}
    /\ calls = <<NewCall("CreateInstance"), NewCall("Command")>>
    /\ crashed = FALSE
    /\ last = Step("OperationComplete", NULL, CmdIn(<<>>, TRUE, CommandIdOf(1)),
                   "NONE", FALSE, FALSE)
    /\ thread = [t \in Threads |-> Idle]

InitAttached ==
    /\ \E streams \in StreamDecls, compressed \in BOOLEAN :
          AttachedState(streams, compressed)
    /\ callsLeft = MaxCalls

\* The provider with a shell and a command attached to it, as clients find it
\* after CreateInstance and Command.
SpecAttached == InitAttached /\ [][Next]_vars

\* The provider after CreateInstance, Command, a Send (sd) that went through
\* and a Receive that was installed: what InitAttached reaches by these two
\* calls.  The Send took the context left by Command and completed it.
PendingState(streams, compressed, sd) ==
    /\ shellList = 1
    /\ shellMem = [a \in ShellAddr |->
                     IF a = 1
                     THEN [ZeroShell EXCEPT !.live = TRUE, !.command = 1,
                                            !.outboundStreamNames = streams,
                                            !.isCompressed = compressed]
                     ELSE ZeroShell]
    /\ cmdMem = [a \in CmdAddr |->
                   IF a = 1
                   THEN [ZeroCommand EXCEPT
                            !.live = TRUE, !.shellData = 1, !.streamName = streams,
                            !.done = IF sd.endOfStream
                                     THEN MarkDone(sd.streamName, streams,
                                              [i \in DOMAIN streams |-> FALSE])
                                     ELSE [i \in DOMAIN streams |-> FALSE],
                            !.receiveContext = 3]
                   ELSE ZeroCommand]
    /\ pendShell = {}
    /\ pendCmd = {}
    /\ calls = <<NewCall("CreateInstance"),
                 [op |-> "Command", nres |-> 1, nrcv |-> 1],
                 NewCall("Receive")>>
    /\ crashed = FALSE
    /\ last = Step("Receive", 3, CmdIn(ShellIdOf(1), TRUE, CommandIdOf(1)),
                   "NONE", TRUE, FALSE)
    /\ thread = [t \in Threads |-> Idle]

\* the Send before the pending Receive: data on stdin, the stream not ended
FirstSend == [streamName |-> "stdin", endOfStream |-> FALSE, data |-> "P1"]

InitPending ==
    /\ \E streams \in StreamDecls, compressed \in BOOLEAN :
          PendingState(streams, compressed, FirstSend)
    /\ callsLeft = MaxCalls

\* The provider with a Receive pending on the attached command.
SpecPending == InitPending /\ [][Next]_vars

\* The start of SpecAttached is a state of Spec, and the start of SpecPending
\* is a state of SpecAttached.
AttachedIsReached ==
    \E streams \in StreamDecls, compressed \in BOOLEAN : AttachedState(streams, compressed)
PendingIsReached ==
    \E streams \in StreamDecls, compressed \in BOOLEAN :
        PendingState(streams, compressed, FirstSend)

\* The provider after Shell_CreateInstance(streams, compressed), which the
\* backend is done with, and Shell_Invoke_Command on the new shell, whose
\* request the backend still holds: what Init reaches by these two calls and
\* one callback.
UnacceptedState(streams, compressed) ==
    /\ shellList = 1
    /\ shellMem = [a \in ShellAddr |->
                     IF a = 1
                     THEN [ZeroShell EXCEPT !.live = TRUE, !.command = 1,
                                            !.outboundStreamNames = streams,
                                            !.isCompressed = compressed]
                     ELSE ZeroShell]
    /\ cmdMem = [a \in CmdAddr |->
                   IF a = 1
                   THEN [ZeroCommand EXCEPT !.live = TRUE, !.shellData = 1,
                                            !.streamName = streams,
                                            !.done = [i \in DOMAIN streams |-> FALSE],
                                            !.receiveContext = 2]
                   ELSE ZeroCommand]
    /\ pendShell = {}
    /\ pendCmd = {1}
    /\ calls = <<NewCall("CreateInstance"), NewCall("Command")>>
    /\ crashed = FALSE
    /\ last = Step("Command", 2, ShellIn(ShellIdOf(1)), "NONE", TRUE, FALSE)
    /\ thread = [t \in Threads |-> Idle]

UnacceptedIsReached ==
    \E streams \in StreamDecls, compressed \in BOOLEAN : UnacceptedState(streams, compressed)

InitUnaccepted ==
    /\ \E streams \in StreamDecls, compressed \in BOOLEAN :
          UnacceptedState(streams, compressed)
    /\ callsLeft = MaxCalls

\* The provider with a command attached that the backend has not accepted yet.
SpecUnaccepted == InitUnaccepted /\ [][Next]_vars

\* ------------------------------------------------------------------ handlers side by side
\* The handlers take no lock.  When the host serves calls on several threads,
\* the reads and writes of CommandData.receiveContext by Send, Signal and
\* Receive interleave; each action below is one such access, with the part of
\* the handler that follows it up to the next access.  The calls name shell 1
\* and its command, and all of them get a record in `calls`.

\* The provider after CreateInstance, Command and a Send that completed the
\* context left by Command: the command's receiveContext is empty.
SentState(streams, compressed) ==
    /\ shellList = 1
    /\ shellMem = [a \in ShellAddr |->
                     IF a = 1
                     THEN [ZeroShell EXCEPT !.live = TRUE, !.command = 1,
                                            !.outboundStreamNames = streams,
                                            !.isCompressed = compressed]
                     ELSE ZeroShell]
    /\ cmdMem = [a \in CmdAddr |->
                   IF a = 1
                   THEN [ZeroCommand EXCEPT !.live = TRUE, !.shellData = 1,
                                            !.streamName = streams,
                                            !.done = [i \in DOMAIN streams |-> FALSE]]
                   ELSE ZeroCommand]
    /\ pendShell = {}
    /\ pendCmd = {}
    /\ calls = <<NewCall("CreateInstance"), [op |-> "Command", nres |-> 1, nrcv |-> 1]>>
    /\ crashed = FALSE
    /\ last = Delivering(Step("Send", NULL,
                              [CmdIn(ShellIdOf(1), TRUE, CommandIdOf(1)) EXCEPT
                                  !.streamName = FirstSend.streamName,
                                  !.endOfStream = FirstSend.endOfStream,
                                  !.data = FirstSend.data],
                              MI_RESULT_OK, TRUE, FALSE),
                         2, MI_RESULT_OK,
                         <<SendReceiveResult([streamName |-> FirstSend.streamName,
                                              endOfStream |-> FirstSend.endOfStream])>>)
    /\ thread = [t \in Threads |-> Idle]

SentIsReached ==
    \E streams \in StreamDecls, compressed \in BOOLEAN : SentState(streams, compressed)

InitRace ==
    /\ \/ PendingState(<<"stdout", "stderr">>, FALSE, FirstSend)
       \/ SentState(<<"stdout", "stderr">>, FALSE)
    /\ callsLeft = MaxCalls

RaceOps == {"Send", "Receive", "Signal"}

\* thread t is at pc in the handler of op
At(t, op, pc) == ~crashed /\ thread[t].op = op /\ thread[t].pc = pc

\* thread t moves on; only the thread and the command cells change
Goes(t, new) ==
    /\ thread' = [thread EXCEPT ![t] = new]
    /\ UNCHANGED <<shellList, shellMem, pendShell, pendCmd, crashed, callsLeft, last>>

\* a handler is entered on thread t and resolves the shell and its command
\* (lines 841-867, 1021-1034, 1071-1084)
Race_Enter(t, op) ==
    /\ ~crashed
    /\ callsLeft > 0
    /\ thread[t].pc = "idle"
    /\ FindShell(ShellIdOf(1)) = 1
    /\ shellMem[1].command # NULL
    /\ callsLeft' = callsLeft - 1
    /\ calls' = Append(calls, NewCall(op))
    /\ thread' = [thread EXCEPT ![t] =
                     [Idle EXCEPT !.op = op, !.pc = "resolved",
                                  !.context = Len(calls) + 1,
                                  !.command = shellMem[1].command]]
    /\ UNCHANGED <<shellList, shellMem, cmdMem, pendShell, pendCmd, crashed, last>>

\* receiveContext = thisShell->command->receiveContext;
Send_Read(t) ==
    /\ At(t, "Send", "resolved")
    /\ Goes(t, [thread[t] EXCEPT
                   !.pc = "read",
                   !.receiveContext = cmdMem[thread[t].command].receiveContext])
    /\ UNCHANGED <<cmdMem, calls>>

\* thisShell->command->receiveContext = NULL;
Send_Clear(t) ==
    /\ At(t, "Send", "read")
    /\ cmdMem' = TakeReceiveContext(cmdMem, thread[t].command)
    /\ Goes(t, [thread[t] EXCEPT !.pc = "cleared"])
    /\ UNCHANGED calls

\* Shell_Receive_Post(&receive, receiveContext) and, at error:,
\* MI_Context_PostResult(receiveContext, miResult) if (receiveContext)
Send_Post(t) ==
    /\ At(t, "Send", "cleared")
    /\ calls' = IF thread[t].receiveContext = NULL THEN calls
                ELSE MI_Context_PostResult(
                         Shell_Receive_Post(calls, thread[t].receiveContext),
                         thread[t].receiveContext, MI_RESULT_OK)
    /\ Goes(t, [thread[t] EXCEPT !.pc = "posted"])
    /\ UNCHANGED cmdMem

\* MI_Context_PostResult(context, miResult) of Send
Send_Reply(t) ==
    /\ At(t, "Send", "posted")
    /\ calls' = MI_Context_PostResult(calls, thread[t].context, MI_RESULT_OK)
    /\ Goes(t, [thread[t] EXCEPT !.pc = "done", !.res = MI_RESULT_OK])
    /\ UNCHANGED cmdMem

\* if (thisShell->command->receiveContext) of Signal
Signal_Test(t) ==
    /\ At(t, "Signal", "resolved")
    /\ Goes(t, [thread[t] EXCEPT !.pc = IF ReceivePending(thread[t].command)
                                        THEN "pending" ELSE "flushed"])
    /\ UNCHANGED <<cmdMem, calls>>

\* MI_Context *receiveContext = thisShell->command->receiveContext;
Signal_Read(t) ==
    /\ At(t, "Signal", "pending")
    /\ Goes(t, [thread[t] EXCEPT
                   !.pc = "read",
                   !.receiveContext = cmdMem[thread[t].command].receiveContext])
    /\ UNCHANGED <<cmdMem, calls>>

\* thisShell->command->receiveContext = 0;
Signal_Clear(t) ==
    /\ At(t, "Signal", "read")
    /\ cmdMem' = TakeReceiveContext(cmdMem, thread[t].command)
    /\ Goes(t, [thread[t] EXCEPT !.pc = "cleared"])
    /\ UNCHANGED calls

\* Shell_Receive_Post(&receive, receiveContext);
\* MI_Context_PostResult(receiveContext, miResult) of Signal
Signal_Post(t) ==
    /\ At(t, "Signal", "cleared")
    /\ calls' = IF thread[t].receiveContext = NULL THEN calls
                ELSE MI_Context_PostResult(
                         Shell_Receive_Post(calls, thread[t].receiveContext),
                         thread[t].receiveContext, MI_RESULT_OK)
    /\ Goes(t, [thread[t] EXCEPT !.pc = "flushed"])
    /\ UNCHANGED cmdMem

\* Shell_Signal_Post; free(thisShell->command); thisShell->command = NULL;
\* MI_Context_PostResult(context, miResult)
Signal_Free(t) ==
    /\ At(t, "Signal", "flushed")
    /\ cmdMem' = IF shellMem[1].command = NULL THEN cmdMem
                 ELSE [cmdMem EXCEPT ![shellMem[1].command].live = FALSE]
    /\ shellMem' = [shellMem EXCEPT ![1].command = NULL]
    /\ calls' = MI_Context_PostResult(calls, thread[t].context, MI_RESULT_OK)
    /\ thread' = [thread EXCEPT ![t] = [@ EXCEPT !.pc = "done", !.res = MI_RESULT_OK]]
    /\ UNCHANGED <<shellList, pendShell, pendCmd, crashed, callsLeft, last>>

\* if (thisShell->command->receiveContext) GOTO_ERROR(MI_RESULT_ALREADY_EXISTS)
Receive_Test(t) ==
    /\ At(t, "Receive", "resolved")
    /\ IF ReceivePending(thread[t].command)
       THEN /\ calls' = MI_Context_PostResult(calls, thread[t].context,
                            MI_RESULT_ALREADY_EXISTS)
            /\ Goes(t, [thread[t] EXCEPT !.pc = "done",
                                         !.res = MI_RESULT_ALREADY_EXISTS])
       ELSE /\ calls' = calls
            /\ Goes(t, [thread[t] EXCEPT !.pc = "empty"])
    /\ UNCHANGED cmdMem

\* thisShell->command->receiveContext = context;
Receive_Install(t) ==
    /\ At(t, "Receive", "empty")
    /\ cmdMem' = [cmdMem EXCEPT ![thread[t].command].receiveContext = thread[t].context]
    /\ Goes(t, [thread[t] EXCEPT !.pc = "done"])
    /\ UNCHANGED calls

\* A thread touches the command after a Signal on another thread freed it,
\* and the access faults.
Race_Fault(t) ==
    /\ ~crashed
    /\ thread[t].pc \notin {"idle", "done"}
    /\ ~cmdMem[thread[t].command].live
    /\ crashed' = TRUE
    /\ UNCHANGED <<shellList, shellMem, cmdMem, pendShell, pendCmd, calls, callsLeft, last,
                   thread>>

NextRace ==
    \/ \E t \in Threads, op \in RaceOps : Race_Enter(t, op)
    \/ \E t \in Threads : Send_Read(t)
    \/ \E t \in Threads : Send_Clear(t)
    \/ \E t \in Threads : Send_Post(t)
    \/ \E t \in Threads : Send_Reply(t)
    \/ \E t \in Threads : Signal_Test(t)
    \/ \E t \in Threads : Signal_Read(t)
    \/ \E t \in Threads : Signal_Clear(t)
    \/ \E t \in Threads : Signal_Post(t)
    \/ \E t \in Threads : Signal_Free(t)
    \/ \E t \in Threads : Receive_Test(t)
    \/ \E t \in Threads : Receive_Install(t)
    \/ \E t \in Threads : Race_Fault(t)

\* The provider with a command attached, serving calls on NumThreads threads.
SpecRace == InitRace /\ [][NextRace]_vars

\* ------------------------------------------------------------------ the registry side by side
\* Shell_CreateInstance and Shell_DeleteInstance on several threads: each action
\* is one read or write of self->shellList or of a nextShell link, with the
\* part of the handler that follows it up to the next one.

\* The provider after one Shell_CreateInstance(streams, compressed) that the
\* backend is done with: shell 1 is the registry.
ShellState(streams, compressed) ==
    /\ shellList = 1
    /\ shellMem = [a \in ShellAddr |->
                     IF a = 1
                     THEN [ZeroShell EXCEPT !.live = TRUE,
                                            !.outboundStreamNames = streams,
                                            !.isCompressed = compressed]
                     ELSE ZeroShell]
    /\ cmdMem = [a \in CmdAddr |-> ZeroCommand]
    /\ pendShell = {}
    /\ pendCmd = {}
    /\ calls = <<NewCall("CreateInstance")>>
    /\ crashed = FALSE
    /\ last = Step("OperationComplete", NULL, ShellIn(ShellIdOf(1)), "NONE", FALSE, FALSE)
    /\ thread = [t \in Threads |-> Idle]

ShellIsReached ==
    \E streams \in StreamDecls, compressed \in BOOLEAN : ShellState(streams, compressed)

InitRegistry ==
    /\ \/ Init
       \/ ShellState(<<"stdout", "stderr">>, FALSE) /\ callsLeft = MaxCalls

\* thread t moves on in a registry handler
Moves(t, new) ==
    /\ thread' = [thread EXCEPT ![t] = new]
    /\ UNCHANGED <<cmdMem, pendCmd, calls, crashed, callsLeft, last>>

\* Shell_CreateInstance up to line 310: the ShellData is allocated and filled
Create_Alloc(t) ==
    /\ ~crashed
    /\ callsLeft > 0
    /\ thread[t].pc = "idle"
    /\ \E thisShell \in FreeShells :
          /\ shellMem' = [shellMem EXCEPT ![thisShell] =
                             [ZeroShell EXCEPT !.live = TRUE,
                                               !.outboundStreamNames = <<"stdout">>]]
          /\ thread' = [thread EXCEPT ![t] =
                           [Idle EXCEPT !.op = "CreateInstance", !.pc = "allocated",
                                        !.thisShell = thisShell]]
    /\ callsLeft' = callsLeft - 1
    /\ UNCHANGED <<shellList, cmdMem, pendShell, pendCmd, calls, crashed, last>>

\* thisShell->nextShell = self->shellList;
Create_Link(t) ==
    /\ At(t, "CreateInstance", "allocated")
    /\ shellMem' = [shellMem EXCEPT ![thread[t].thisShell].nextShell = shellList]
    /\ Moves(t, [thread[t] EXCEPT !.pc = "linked"])
    /\ UNCHANGED <<shellList, pendShell>>

\* self->shellList = thisShell; and the rest of the handler
Create_Publish(t) ==
    /\ At(t, "CreateInstance", "linked")
    /\ shellList' = thread[t].thisShell
    /\ pendShell' = pendShell \cup {thread[t].thisShell}
    /\ Moves(t, [thread[t] EXCEPT !.pc = "done"])
    /\ UNCHANGED shellMem

\* ShellData *thisShell = self->shellList; ShellData **previous = &self->shellList;
Delete_Start(t, shellId) ==
    /\ ~crashed
    /\ callsLeft > 0
    /\ thread[t].pc = "idle"
    /\ thread' = [thread EXCEPT ![t] =
                     [Idle EXCEPT !.op = "DeleteInstance", !.pc = "walk",
                                  !.shellId = shellId, !.thisShell = shellList]]
    /\ callsLeft' = callsLeft - 1
    /\ UNCHANGED <<shellList, shellMem, cmdMem, pendShell, pendCmd, calls, crashed, last>>

\* one turn of the while loop: previous = &thisShell->nextShell;
\* thisShell = thisShell->nextShell;
Delete_Step(t) ==
    /\ At(t, "DeleteInstance", "walk")
    /\ thread[t].thisShell # NULL
    /\ ShellIdOf(thread[t].thisShell) # thread[t].shellId
    /\ Moves(t, [thread[t] EXCEPT !.previous = thread[t].thisShell,
                                  !.thisShell = shellMem[thread[t].thisShell].nextShell])
    /\ UNCHANGED <<shellList, shellMem, pendShell>>

\* the loop is left: *previous = thisShell->nextShell, or NOT_FOUND is posted
Delete_Unlink(t) ==
    /\ At(t, "DeleteInstance", "walk")
    /\ thread[t].thisShell = NULL \/ ShellIdOf(thread[t].thisShell) = thread[t].shellId
    /\ IF thread[t].thisShell = NULL
       THEN /\ Moves(t, [thread[t] EXCEPT !.pc = "done", !.res = MI_RESULT_NOT_FOUND])
            /\ UNCHANGED <<shellList, shellMem, pendShell>>
       ELSE /\ IF thread[t].previous = NULL
               THEN /\ shellList' = shellMem[thread[t].thisShell].nextShell
                    /\ shellMem' = shellMem
               ELSE /\ shellList' = shellList
                    /\ shellMem' = [shellMem EXCEPT ![thread[t].previous].nextShell =
                                       shellMem[thread[t].thisShell].nextShell]
            /\ Moves(t, [thread[t] EXCEPT !.pc = "unlinked"])
            /\ UNCHANGED pendShell

\* free(thisShell); MI_Context_PostResult(context, MI_RESULT_OK)
Delete_Free(t) ==
    /\ At(t, "DeleteInstance", "unlinked")
    /\ shellMem' = [shellMem EXCEPT ![thread[t].thisShell].live = FALSE]
    /\ Moves(t, [thread[t] EXCEPT !.pc = "done", !.res = MI_RESULT_OK])
    /\ UNCHANGED <<shellList, pendShell>>

\* A Delete reads or writes a node that a Delete on another thread freed, and
\* the access faults.
Delete_Fault(t) ==
    /\ ~crashed
    /\ thread[t].op = "DeleteInstance"
    /\ thread[t].pc \in {"walk", "unlinked"}
    /\ \/ thread[t].thisShell # NULL /\ ~shellMem[thread[t].thisShell].live
       \/ thread[t].previous # NULL /\ ~shellMem[thread[t].previous].live
    /\ crashed' = TRUE
    /\ UNCHANGED <<shellList, shellMem, cmdMem, pendShell, pendCmd, calls, callsLeft, last,
                   thread>>

NextRegistry ==
    \/ \E t \in Threads : Create_Alloc(t)
    \/ \E t \in Threads : Create_Link(t)
    \/ \E t \in Threads : Create_Publish(t)
    \/ \E t \in Threads, shellId \in ShellIds : Delete_Start(t, shellId)
    \/ \E t \in Threads : Delete_Step(t)
    \/ \E t \in Threads : Delete_Unlink(t)
    \/ \E t \in Threads : Delete_Free(t)
    \/ \E t \in Threads : Delete_Fault(t)

\* The provider serving CreateInstance and DeleteInstance on NumThreads threads.
SpecRegistry == InitRegistry /\ [][NextRegistry]_vars

\* The provider after two Shell_CreateInstance calls: the backend is done with
\* the request of the first shell and still holds the request of the second,
\* which is the head of the list.
TwoShellsState ==
    /\ shellList = 2
    /\ shellMem = [a \in ShellAddr |->
                     IF a \in {1, 2}
                     THEN [ZeroShell EXCEPT !.live = TRUE,
                                            !.nextShell = IF a = 2 THEN 1 ELSE NULL,
                                            !.outboundStreamNames = <<"stdout", "stderr">>]
                     ELSE ZeroShell]
    /\ cmdMem = [a \in CmdAddr |-> ZeroCommand]
    /\ pendShell = {2}
    /\ pendCmd = {}
    /\ calls = <<NewCall("CreateInstance"), NewCall("CreateInstance")>>
    /\ crashed = FALSE
    /\ last = Step("OperationComplete", NULL, ShellIn(ShellIdOf(1)), "NONE", FALSE, FALSE)
    /\ thread = [t \in Threads |-> Idle]

InitTwoShells == TwoShellsState /\ callsLeft = MaxCalls

\* The provider with two shells, one of them not yet accepted by the backend.
SpecTwoShells == InitTwoShells /\ [][Next]_vars

\* ------------------------------------------------------------------ the wire codec
\* A buffer is a sequence of cells.  A data cell holds one byte; each USHORT
\* field of a CompressionHeader takes one cell, so a header takes two.
SizeofCompressionHeader == 2

\* the values a USHORT holds
UShortRange == 2 ^ UShortBits

\* #define MAX_COMPRESS_BUFFER_BLOCK (64*1024): as many bytes as a USHORT has
\* values
MAX_COMPRESS_BUFFER_BLOCK == UShortRange

Bytes == {0, 1}

RECURSIVE BuffersOf(_)
\* the byte strings of length n
BuffersOf(n) ==
    IF n = 0 THEN {<<>>}
    ELSE {Append(b, x) : b \in BuffersOf(n - 1), x \in Bytes}

\* the buffers a caller hands to CompressBuffer
Buffers == UNION {BuffersOf(n) : n \in 0..MaxLen}

\* the values an MI_Uint32 holds: bufferLength and bufferUsed of a DecodeBuffer
UInt32Range == 2 ^ UInt32Bits

\* the longer buffers a caller may hand over, up to the largest bufferUsed
LongBuffers == {[i \in 1..n |-> 0] : n \in (MaxLen + 1)..(UInt32Range - 1)}

\* the values of extraSpaceToAllocate: none, and sizeof(MI_Char) as Receive asks
ExtraSpace == {0, 1}

\* what malloc left in the cells that were never written
Garbage == {0, UShortRange - 1}

\* a DecodeBuffer: the cells written so far, the allocated and the used size
DecodeBuffer(buffer, bufferLength, bufferUsed) ==
    [buffer |-> buffer, bufferLength |-> bufferLength, bufferUsed |-> bufferUsed]

\* memset(toBuffer, 0, sizeof(*toBuffer)), and a buffer that was freed
NoBuffer == DecodeBuffer(<<>>, 0, 0)

\* the cell at offset i of a buffer; a cell that was never written holds g
Cell(mem, i, g) == IF i + 1 \in DOMAIN mem THEN mem[i + 1] ELSE g

\* the n cells from offset i on
Cells(mem, i, n, g) == [k \in 1..n |-> Cell(mem, i + k - 1, g)]

\* the field is written as it is
Unadjusted(size) == size % UShortRange

\* compressionHeader->originalSize = chunkSize - 1: the size goes into the
\* USHORT one less than it is
WireSize(size) == (size - 1) % UShortRange

\* header->originalSize + 1: the size a USHORT field stands for
TrueSize(field) == field + 1

RECURSIVE XpressCode(_, _)
\* The compressed form of a chunk, as one number that is no byte of Bytes:
\* the bits of the chunk behind a leading 1.
XpressCode(chunk, v) ==
    IF chunk = <<>> THEN v ELSE XpressCode(Tail(chunk), 2 * v + Head(chunk))

RECURSIVE XpressDecode(_)
XpressDecode(v) == IF v <= 1 THEN <<>> ELSE Append(XpressDecode(v \div 2), v % 2)

\* what RtlCompressBufferProgress can do with a chunk: compress it to a given
\* number of bytes, or fail
XpressOutcomes ==
    {[status |-> "STATUS_SUCCESS", size |-> n] : n \in 1..MAX_COMPRESS_BUFFER_BLOCK}
    \cup {[status |-> "STATUS_BUFFER_TOO_SMALL", size |-> 0],
          [status |-> "STATUS_UNSUCCESSFUL", size |-> 0]}

\* RtlCompressBufferProgress(chunk, chunkSize, to, chunkSize, &actual): the
\* compressed form of the chunk when it fits into chunkSize bytes
RtlCompressBufferProgress(chunk, xp) ==
    IF xp.status = "STATUS_SUCCESS" /\ xp.size > Len(chunk)
    THEN [status |-> "STATUS_BUFFER_TOO_SMALL", out |-> <<>>]
    ELSE IF xp.status = "STATUS_SUCCESS"
    THEN [status |-> xp.status,
          out |-> <<XpressCode(chunk, 1)>> \o [k \in 1..(xp.size - 1) |-> 0]]
    ELSE [status |-> xp.status, out |-> <<>>]

\* RtlDecompressBufferProgress(to, uncompressedSize, from, compressedSize,
\* &bufferUsed): the chunk the compressed form stands for, when it is one and
\* the chunk fits
RtlDecompressBufferProgress(from, uncompressedSize) ==
    IF from # <<>> /\ from[1] >= 2 /\ Len(XpressDecode(from[1])) <= uncompressedSize
    THEN [status |-> "STATUS_SUCCESS", out |-> XpressDecode(from[1])]
    ELSE [status |-> "STATUS_UNSUCCESSFUL", out |-> <<>>]

RECURSIVE CalculateFrom(_, _, _, _)
\* the loop of CalculateTotalUncompressedSize from offset bufferCursor
CalculateFrom(mem, endOfBuffer, bufferCursor, g) ==
    IF bufferCursor >= endOfBuffer THEN 0
    ELSE TrueSize(Cell(mem, bufferCursor, g))
         + CalculateFrom(mem, endOfBuffer,
               bufferCursor + TrueSize(Cell(mem, bufferCursor + 1, g))
                            + SizeofCompressionHeader, g)

\* CalculateTotalUncompressedSize: the headers are walked up to bufferLength,
\* not bufferUsed
CalculateTotalUncompressedSize(compressedBuffer, g) ==
    CalculateFrom(compressedBuffer.buffer, compressedBuffer.bufferLength, 0, g)

RECURSIVE DecompressChunks(_, _, _, _, _)
\* The loop of DecompressBuffer from offset fromBufferCursor; read lists the
\* original and the stored size taken from each header.
DecompressChunks(fromBuffer, fromBufferCursor, toBuffer, read, g) ==
    IF fromBufferCursor >= fromBuffer.bufferUsed
    THEN [res |-> MI_RESULT_OK, to |-> toBuffer, read |-> read]
    ELSE LET originalSize == Cell(fromBuffer.buffer, fromBufferCursor, g)
             compressedSize == Cell(fromBuffer.buffer, fromBufferCursor + 1, g)
             payload == Cells(fromBuffer.buffer,
                              fromBufferCursor + SizeofCompressionHeader,
                              TrueSize(compressedSize), g)
             rtl == RtlDecompressBufferProgress(payload, TrueSize(originalSize))
             chunk == IF originalSize = compressedSize
                      THEN Cells(fromBuffer.buffer,
                                 fromBufferCursor + SizeofCompressionHeader,
                                 TrueSize(originalSize), g)
                      ELSE rtl.out
             seen == Append(read, [original |-> TrueSize(originalSize),
                                   stored |-> TrueSize(compressedSize)])
         IN IF toBuffer.bufferUsed + TrueSize(originalSize) > toBuffer.bufferLength
            THEN [res |-> MI_RESULT_FAILED,
                  to |-> [toBuffer EXCEPT !.buffer = <<>>], read |-> read]
            ELSE IF originalSize # compressedSize /\ rtl.status # "STATUS_SUCCESS"
            THEN [res |-> MI_RESULT_FAILED,
                  to |-> [toBuffer EXCEPT !.buffer = <<>>], read |-> seen]
            ELSE DecompressChunks(
                    fromBuffer,
                    fromBufferCursor + SizeofCompressionHeader + TrueSize(compressedSize),
                    [toBuffer EXCEPT !.buffer = @ \o chunk,
                                     !.bufferUsed = @ + Len(chunk)],
                    seen, g)

\* DecompressBuffer(fromBuffer, toBuffer): the MI_Result, toBuffer and the
\* sizes read from the headers
DecompressBuffer(fromBuffer, alloc, g) ==
    IF ~alloc
    THEN [res |-> MI_RESULT_SERVER_LIMITS_EXCEEDED, to |-> NoBuffer, read |-> <<>>]
    ELSE DecompressChunks(fromBuffer, 0,
            DecodeBuffer(<<>>, CalculateTotalUncompressedSize(fromBuffer, g), 0),
            <<>>, g)

\* ULONG min(a, b)
min(a, b) == IF a < b THEN a ELSE b

RECURSIVE CompressChunks(_, _, _, _, _)
\* The loop of CompressBuffer from offset fromBufferCursor; xp says what the
\* compression does with each chunk, sizes lists chunkSize and
\* actualToChunkSize of each chunk.
CompressChunks(fromBuffer, fromBufferCursor, toBuffer, sizes, xp) ==
    IF fromBufferCursor >= fromBuffer.bufferUsed
    THEN [res |-> MI_RESULT_OK, to |-> toBuffer, sizes |-> sizes]
    ELSE LET chunkSize == min(fromBuffer.bufferUsed - fromBufferCursor,
                              MAX_COMPRESS_BUFFER_BLOCK)
             chunk == SubSeq(fromBuffer.buffer, fromBufferCursor + 1,
                             fromBufferCursor + chunkSize)
             rtl == RtlCompressBufferProgress(chunk, xp[Len(sizes) + 1])
             stored == IF rtl.status = "STATUS_BUFFER_TOO_SMALL" THEN chunk ELSE rtl.out
             actualToChunkSize == Len(stored)
         IN IF toBuffer.bufferUsed + chunkSize + SizeofCompressionHeader
                  > toBuffer.bufferLength
            THEN [res |-> MI_RESULT_FAILED, to |-> NoBuffer, sizes |-> sizes]
            ELSE IF rtl.status \notin {"STATUS_SUCCESS", "STATUS_BUFFER_TOO_SMALL"}
            THEN [res |-> MI_RESULT_FAILED, to |-> NoBuffer, sizes |-> sizes]
            ELSE CompressChunks(
                    fromBuffer, fromBufferCursor + chunkSize,
                    [toBuffer EXCEPT
                        !.buffer = @ \o <<WireSize(chunkSize), WireSize(actualToChunkSize)>>
                                     \o stored,
                        !.bufferUsed = @ + SizeofCompressionHeader + actualToChunkSize],
                    Append(sizes, [original |-> chunkSize, stored |-> actualToChunkSize]),
                    xp)

\* the chunks a buffer of n bytes is cut into
NumChunks(n) ==
    (n \div MAX_COMPRESS_BUFFER_BLOCK)
    + (IF n % MAX_COMPRESS_BUFFER_BLOCK # 0 THEN 1 ELSE 0)

\* CompressBuffer(fromBuffer, toBuffer, extraSpaceToAllocate): the MI_Result,
\* toBuffer and the sizes of the chunks
CompressBuffer(fromBuffer, extraSpaceToAllocate, alloc, xp) ==
    IF ~alloc
    THEN [res |-> MI_RESULT_SERVER_LIMITS_EXCEEDED, to |-> NoBuffer, sizes |-> <<>>]
    ELSE CompressChunks(fromBuffer, 0,
            DecodeBuffer(<<>>,
                (SizeofCompressionHeader * NumChunks(fromBuffer.bufferUsed)
                    + fromBuffer.bufferUsed + extraSpaceToAllocate) % UInt32Range,
                0),
            <<>>, xp)

\* sizeof(MI_Char): one byte, the terminator behind the base64 text
SizeofMI_Char == 1

\* sizeof(MI_T('=')): a character constant has type int in C
SizeofCharConstant == 4

\* the base64 digits are 0..63; the padding character '='
Base64Pad == 64

\* the four characters base64 makes of a group of one to three bytes
Base64Group(g) ==
    LET b1 == g[1]
        b2 == IF Len(g) >= 2 THEN g[2] ELSE 0
        b3 == IF Len(g) >= 3 THEN g[3] ELSE 0
    IN << b1 \div 4,
          (b1 % 4) * 16 + (b2 \div 16),
          IF Len(g) >= 2 THEN (b2 % 16) * 4 + (b3 \div 64) ELSE Base64Pad,
          IF Len(g) >= 3 THEN b3 % 64 ELSE Base64Pad >>

\* Shell_Base64Enc_Callback(data, size, callbackData): appends the characters
\* if they fit, and says -1 if they do not
Shell_Base64Enc_Callback(data, thisBuffer) ==
    IF thisBuffer.bufferUsed + Len(data) > thisBuffer.bufferLength
    THEN [rc |-> -1, to |-> thisBuffer]
    ELSE [rc |-> 0,
          to |-> [thisBuffer EXCEPT !.buffer = @ \o data,
                                    !.bufferUsed = @ + Len(data)]]

RECURSIVE Base64Enc(_, _, _)
\* Base64Enc(data, size, callback, callbackData): hands the characters of
\* group after group to the callback and stops with -1 when the callback does
Base64Enc(data, cursor, toBuffer) ==
    IF cursor >= Len(data) THEN [rc |-> 0, to |-> toBuffer]
    ELSE LET n == min(Len(data) - cursor, 3)
             r == Shell_Base64Enc_Callback(
                     Base64Group(SubSeq(data, cursor + 1, cursor + n)), toBuffer)
         IN IF r.rc = -1 THEN r ELSE Base64Enc(data, cursor + n, r.to)

\* Base64EncodeBuffer(fromBuffer, toBuffer): the MI_Result and toBuffer; a
\* buffer that was freed has no cells
Base64EncodeBuffer(fromBuffer, alloc) ==
    LET bufferLength ==
            ((((fromBuffer.bufferUsed * 4) % UInt32Range) \div 3)
                + SizeofMI_Char + SizeofCharConstant * 2) % UInt32Range
        enc == Base64Enc(SubSeq(fromBuffer.buffer, 1, fromBuffer.bufferUsed), 0,
                         DecodeBuffer(<<>>, bufferLength, 0))
    IN IF ~alloc
       THEN [res |-> MI_RESULT_SERVER_LIMITS_EXCEEDED,
             to |-> DecodeBuffer(<<>>, bufferLength, 0)]
       ELSE IF enc.rc = -1
       THEN [res |-> MI_RESULT_FAILED, to |-> [enc.to EXCEPT !.buffer = <<>>]]
       ELSE IF enc.to.bufferLength - enc.to.bufferUsed < SizeofMI_Char
       THEN [res |-> MI_RESULT_FAILED, to |-> [enc.to EXCEPT !.buffer = <<>>]]
       ELSE [res |-> MI_RESULT_OK, to |-> enc.to]

\* A caller has a buffer B to compress: nothing else of the provider is in use.
InitCodec ==
    /\ shellList = NULL
    /\ shellMem = [a \in ShellAddr |-> ZeroShell]
    /\ cmdMem = [a \in CmdAddr |-> ZeroCommand]
    /\ pendShell = {}
    /\ pendCmd = {}
    /\ calls = <<>>
    /\ crashed = FALSE
    /\ callsLeft = MaxCalls
    /\ thread = [t \in Threads |-> Idle]
    /\ \E B \in Buffers \cup LongBuffers :
          last = [op |-> "Buffer", in |-> DecodeBuffer(B, Len(B), Len(B)),
                  extra |-> 0, alloc |-> TRUE, xp |-> <<>>, res |-> "NONE",
                  out |-> NoBuffer, sizes |-> <<>>, read |-> <<>>]

\* what the compression does with chunk after chunk of a buffer of n bytes,
\* when it treats the chunks in turn as the pattern says
Outcomes(pattern, n) ==
    [i \in 1..NumChunks(n) |-> pattern[((i - 1) % Len(pattern)) + 1]]

\* CompressBuffer(&B, &toBuffer, extra) is called on the buffer
CompressBuffer_Call ==
    /\ last.op = "Buffer"
    /\ \E alloc \in BOOLEAN, extra \in ExtraSpace,
          pattern \in [1..NumChunks(MaxLen) -> XpressOutcomes] :
          LET xp == Outcomes(pattern, last.in.bufferUsed)
              r == CompressBuffer(last.in, extra, alloc, xp)
          IN last' = [last EXCEPT !.op = "CompressBuffer", !.alloc = alloc,
                                  !.extra = extra, !.xp = xp,
                                  !.res = r.res, !.out = r.to, !.sizes = r.sizes]
    /\ UNCHANGED <<shellList, shellMem, cmdMem, pendShell, pendCmd, calls, crashed,
                   callsLeft, thread>>

\* DecompressBuffer is called on what CompressBuffer returned
DecompressBuffer_Call ==
    /\ last.op = "CompressBuffer"
    /\ last.res = MI_RESULT_OK
    /\ \E alloc \in BOOLEAN, g \in Garbage :
          LET r == DecompressBuffer(last.out, alloc, g)
          IN last' = [last EXCEPT !.op = "DecompressBuffer", !.alloc = alloc,
                                  !.res = r.res, !.out = r.to, !.read = r.read]
    /\ UNCHANGED <<shellList, shellMem, cmdMem, pendShell, pendCmd, calls, crashed,
                   callsLeft, thread>>

\* Base64EncodeBuffer(&B, &toBuffer) is called on the buffer
Base64EncodeBuffer_Call ==
    /\ last.op = "Buffer"
    /\ \E alloc \in BOOLEAN :
          LET r == Base64EncodeBuffer(last.in, alloc)
          IN last' = [last EXCEPT !.op = "Base64EncodeBuffer", !.alloc = alloc,
                                  !.res = r.res, !.out = r.to]
    /\ UNCHANGED <<shellList, shellMem, cmdMem, pendShell, pendCmd, calls, crashed,
                   callsLeft, thread>>

NextCodec ==
    \/ CompressBuffer_Call
    \/ DecompressBuffer_Call
    \/ Base64EncodeBuffer_Call

SpecCodec == InitCodec /\ [][NextCodec]_vars

\* ------------------------------------------------------------------ properties
\* the shells on the list: the registry
Registered == {a \in ShellAddr : FindShell(ShellIdOf(a)) = a}

\* shell s is registered and live, and a lookup of its id comes back with it
Resolves(s) ==
    /\ s \in Registered
    /\ shellMem[s].live
    /\ ~WalkReadsFreed(ShellIdOf(s))

\* shell s resolves and has a live command attached
HasCommand(s) ==
    /\ Resolves(s)
    /\ shellMem[s].command # NULL
    /\ cmdMem[shellMem[s].command].live

\* shell s has a command on which the context of a Receive call is pending
HasReceivePending(s) ==
    /\ HasCommand(s)
    /\ cmdMem[shellMem[s].command].receiveContext # NULL
    /\ calls[cmdMem[shellMem[s].command].receiveContext].op = "Receive"

\* this step is the provider serving a call of method op
Called(op) == callsLeft' = callsLeft - 1 /\ last'.op = op

\* the call of this step names shell s
Names(s) == last'.in.shellId = ShellIdOf(s)

\* the call of this step names shell s and the command attached to it
NamesCommand(s) ==
    /\ Names(s)
    /\ last'.in.cmd
    /\ last'.in.commandId = CommandIdOf(shellMem[s].command)

\* the receive-result C1 asks of a Send: the state follows endOfStream and the
\* stream carries the payload of the request
ExpectedOfSend(in) ==
    [CommandState |-> IF in.endOfStream THEN CommandState_Done ELSE CommandState_Running,
     Stream |-> <<[streamName |-> in.streamName, endOfStream |-> in.endOfStream,
                   data |-> in.data]>>]

\* C1: on a command that has a Receive pending, a Send carrying payload P
\* completes that Receive, and no other call, with a receive-result whose state
\* is Running or Done after endOfStream and whose stream payload is P.
C1_SendCompletesReceive ==
    [][\A s \in ShellAddr :
          (/\ HasReceivePending(s)
           /\ Called("Send")
           /\ NamesCommand(s)
           /\ last'.in.data = "P1")
          => /\ last'.to = cmdMem[shellMem[s].command].receiveContext
             /\ last'.toRes = MI_RESULT_OK
             /\ last'.rcv = <<ExpectedOfSend(last'.in)>>
             /\ calls' = MI_Context_PostResult(Shell_Receive_Post(calls, last'.to),
                             last'.to, MI_RESULT_OK)]_vars

\* C1, the first Receive after InvokeCommand: on a command nothing was sent to
\* or received from, a Receive is installed as the pending Receive.
C1_FirstReceiveIsInstalled ==
    [][\A s \in ShellAddr :
          (/\ HasCommand(s)
           /\ last.op = "OperationComplete"
           /\ \A c \in DOMAIN calls : calls[c].op \notin {"Send", "Receive"}
           /\ Called("Receive")
           /\ NamesCommand(s))
          => /\ last'.ctx # NULL
             /\ cmdMem'[shellMem[s].command].receiveContext = last'.ctx]_vars

\* C2: no call's context is given a final result more than once.
C2_NoDoubleReply ==
    \A c \in DOMAIN calls : calls[c].nres <= 1

\* a Receive was completed and a later Send or Signal found the slot empty
C2_Witness ==
    /\ \E c \in DOMAIN calls : calls[c].op = "Receive" /\ calls[c].nres = 1
    /\ last.op \in {"Send", "Signal"}
    /\ last.res = MI_RESULT_OK
    /\ last.to = NULL

\* C3: every Receive that was installed and has no reply yet is held in the
\* receiveContext of a command attached to a registered shell.
C3_PendingReceiveIsHeld ==
    \A c \in DOMAIN calls :
        (calls[c].op = "Receive" /\ calls[c].nres = 0)
        => \E s \in ShellAddr :
              /\ HasCommand(s)
              /\ cmdMem[shellMem[s].command].receiveContext = c

\* the step left the registry, the shells and the commands as they were
Untouched == UNCHANGED <<shellList, shellMem, cmdMem, calls, pendShell, pendCmd>>

\* C4: InvokeCommand on a shell that has a command attached fails with
\* AlreadyExists; InvokeCommand right after a Signal that detached the shell's
\* command attaches a new command, unless the provider is out of memory.
C4_SingleCommand ==
    [][\A s \in ShellAddr :
          /\ (HasCommand(s) /\ Called("Command") /\ Names(s))
             => last'.res = MI_RESULT_ALREADY_EXISTS
          /\ (/\ Resolves(s)
              /\ shellMem[s].command = NULL
              /\ last.op = "Signal" /\ last.in.shellId = ShellIdOf(s)
              /\ last.res = MI_RESULT_OK
              /\ Called("Command") /\ Names(s))
             => \/ last'.res = MI_RESULT_SERVER_LIMITS_EXCEEDED
                \/ /\ last'.fwd
                   /\ shellMem'[s].command # NULL
                   /\ cmdMem'[shellMem'[s].command].live]_vars

\* C5: a Receive on a command that has a Receive pending fails with
\* AlreadyExists and leaves the pending one installed; the Send or Signal that
\* then delivers on the command completes the context that was pending.
C5_SecondReceiveRefused ==
    [][\A s \in ShellAddr :
          HasReceivePending(s)
          => /\ (Called("Receive") /\ NamesCommand(s))
                => /\ last'.res = MI_RESULT_ALREADY_EXISTS
                   /\ last'.ctx = NULL
                   /\ Untouched
             /\ ((Called("Send") \/ Called("Signal")) /\ Names(s) /\ last'.to # NULL)
                => /\ last'.to = cmdMem[shellMem[s].command].receiveContext
                   /\ calls'[last'.to].nres = 1]_vars

\* a second Receive was refused and the first one is still pending
C5_Witness ==
    /\ last.op = "Receive"
    /\ last.res = MI_RESULT_ALREADY_EXISTS
    /\ \E s \in ShellAddr :
          /\ HasReceivePending(s)
          /\ last.in.shellId = ShellIdOf(s)
          /\ calls[cmdMem[shellMem[s].command].receiveContext].nres = 0

\* C6: with a Receive pending on a command, a Signal for the command (or for
\* no command in particular) completes that Receive with state Done and a
\* stream without data, replies OK and leaves the shell without a command.
C6_SignalFlushesReceive ==
    [][\A s \in ShellAddr :
          (/\ HasReceivePending(s)
           /\ Called("Signal")
           /\ Names(s)
           /\ last'.in.cmd => last'.in.commandId = CommandIdOf(shellMem[s].command))
          => /\ last'.res = MI_RESULT_OK
             /\ last'.to = cmdMem[shellMem[s].command].receiveContext
             /\ last'.toRes = MI_RESULT_OK
             /\ calls'[last'.to].nres = 1
             /\ last'.rcv[1].CommandState = CommandState_Done
             /\ \A i \in DOMAIN last'.rcv[1].Stream : last'.rcv[1].Stream[i].data = "none"
             /\ s \in Registered'
             /\ shellMem'[s].command = NULL]_vars

\* the ids of a Signal, Send or Receive request resolve to no command: the
\* shell id is unknown, or the command id is not that of the shell's command
Unresolved ==
    \/ FindShell(last'.in.shellId) = NULL /\ ~BadWalk(last'.in.shellId, "trap")
    \/ \E s \in ShellAddr :
          /\ HasCommand(s)
          /\ Names(s)
          /\ last'.in.cmd
          /\ last'.in.commandId # CommandIdOf(shellMem[s].command)

\* C7: a Signal with an unknown shellId or a commandId that is not the one of
\* the shell's command returns NotFound and changes nothing.
C7_SignalNotFound ==
    [][(Called("Signal") /\ Unresolved)
       => (last'.res = MI_RESULT_NOT_FOUND /\ Untouched)]_vars

\* C8: a Send or Receive with an unknown shellId or a commandId that is not
\* the one of the shell's command returns NotFound, changes nothing, delivers
\* nothing and forwards nothing to the backend.
C8_SendReceiveNotFound ==
    [][((Called("Send") \/ Called("Receive")) /\ Unresolved)
       => /\ last'.res = MI_RESULT_NOT_FOUND
          /\ ~last'.fwd
          /\ last'.to = NULL
          /\ last'.ctx = NULL
          /\ Untouched]_vars

\* a Send or Receive named the shell and another command id than that of its
\* command, on which a Receive is pending, and got NotFound
C8_Witness ==
    /\ last.op \in {"Send", "Receive"}
    /\ last.res = MI_RESULT_NOT_FOUND
    /\ \E s \in ShellAddr :
          /\ HasReceivePending(s)
          /\ last.in.shellId = ShellIdOf(s)
          /\ last.in.cmd
          /\ last.in.commandId # CommandIdOf(shellMem[s].command)

\* C9: on a registered shell with no command attached, a Send, Receive or
\* Signal that carries a commandId returns NotFound and leaves the shell
\* registered, with no command attached.
C9_NoCommandNotFound ==
    [][\A s \in ShellAddr :
          (/\ Resolves(s)
           /\ shellMem[s].command = NULL
           /\ Called("Send") \/ Called("Receive") \/ Called("Signal")
           /\ Names(s)
           /\ last'.in.cmd)
          => /\ last'.res = MI_RESULT_NOT_FOUND
             /\ s \in Registered'
             /\ shellMem'[s].live
             /\ shellMem'[s].command = NULL]_vars

\* the calls of the two threads are over
Over(t1, t2) == thread[t1].pc = "done" /\ thread[t2].pc = "done"

\* C10: claiming and installing the receiveContext slot is atomic when handlers
\* interleave: of the Sends and Signals that run against one pending Receive
\* only one takes its context and delivers on it, and of two Receives that run
\* against the empty slot one is installed and the other gets AlreadyExists.
C10_SlotClaimIsAtomic ==
    \A t1, t2 \in Threads :
        t1 # t2
        => /\ thread[t1].receiveContext # NULL
              => thread[t1].receiveContext # thread[t2].receiveContext
           /\ (/\ Over(t1, t2)
               /\ thread[t1].op = "Receive" /\ thread[t2].op = "Receive"
               /\ thread[t1].res = "NONE")
              => /\ thread[t2].res = MI_RESULT_ALREADY_EXISTS
                 /\ cmdMem[thread[t1].command].receiveContext = thread[t1].context

\* the shells a walk from self->shellList comes by
OnList == {a \in ShellAddr : \E i \in DOMAIN Visited(Hex(NULL)) : Visited(Hex(NULL))[i] = a}

\* C11: when CreateInstance and DeleteInstance calls interleave, once they are
\* over the registry holds every shell that was created and that no call
\* deleted, and no shell that was deleted and whose cell no Create got again.
C11_RegistryIsExact ==
    (\A t \in Threads : thread[t].pc \in {"idle", "done"}) /\ ~crashed
    => \A t \in Threads :
          /\ (/\ thread[t].op = "CreateInstance" /\ thread[t].pc = "done"
              /\ \A u \in Threads : thread[u].op = "DeleteInstance"
                                    => thread[u].shellId # ShellIdOf(thread[t].thisShell))
             => thread[t].thisShell \in OnList
          /\ (/\ thread[t].op = "DeleteInstance" /\ thread[t].res = MI_RESULT_OK
              /\ \A u \in Threads : thread[u].op = "CreateInstance"
                                    => thread[u].thisShell # thread[t].thisShell)
             => thread[t].thisShell \notin OnList

\* the step is WSManPluginOperationComplete rejecting a request of the kind
Rejected(isCommand) ==
    /\ last'.op = "OperationComplete"
    /\ last'.in.cmd = isCommand
    /\ last'.in.errorCode # 0

\* a call of method op that had no reply gets its final result in the step
Answered(op) ==
    \E c \in DOMAIN calls :
        calls[c].op = op /\ calls[c].nres = 0 /\ calls'[c].nres = 1

\* C12: when the backend rejects the request of a shell, the shell leaves the
\* registry and the CreateInstance call gets a reply; when it rejects the
\* request of a command, the command is detached from its shell and the
\* Command call gets a reply.
C12_RejectionUnwinds ==
    [][/\ \A a \in ShellAddr :
             (a \in pendShell /\ a \in OnList /\ Rejected(FALSE)
              /\ last'.in.shellId = ShellIdOf(a))
             => (a \notin OnList' /\ Answered("CreateInstance"))
       /\ \A k \in CmdAddr :
             (k \in pendCmd /\ Rejected(TRUE) /\ last'.in.commandId = CommandIdOf(k)
              /\ \E a \in OnList : shellMem[a].command = k)
             => (/\ \A a \in ShellAddr : shellMem'[a].command # k
                 /\ Answered("Command"))]_vars

\* C13: when the command was freed (by Signal) before the backend answered its
\* request, the callback that then reports the command's context leaves the
\* freed command, the shells and the process alone.
C13_LateAcceptanceIsSafe ==
    [][\A k \in CmdAddr :
          (/\ k \in pendCmd
           /\ ~cmdMem[k].live
           /\ last.op = "Signal" /\ last.res = MI_RESULT_OK
           /\ last'.op = "ReportContext"
           /\ last'.in.cmd
           /\ last'.in.commandId = CommandIdOf(k))
          => /\ cmdMem' = cmdMem
             /\ shellMem' = shellMem
             /\ ~crashed']_vars

\* C14: DeleteInstance on a shell that has a command attached leaves the shell
\* registered, alive and with its command.
C14_DeleteKeepsBusyShell ==
    [][\A s \in ShellAddr :
          (HasCommand(s) /\ Called("DeleteInstance") /\ Names(s))
          => /\ Resolves(s)'
             /\ shellMem'[s].command = shellMem[s].command]_vars

\* no node of the list is a freed cell and the list ends
CleanList == ~WalkLoops(Hex(NULL)) /\ ~WalkReadsFreed(Hex(NULL))

\* C15: DeleteInstance on a registered shell that has no command answers Ok,
\* the shell is not found afterwards and every other shell still is;
\* DeleteInstance with an id that no registered shell has answers NotFound and
\* leaves the registry as it was.
C15_DeleteRemovesExactlyOne ==
    [][(Called("DeleteInstance") /\ CleanList)
       => /\ \A s \in ShellAddr :
                (Resolves(s) /\ shellMem[s].command = NULL /\ Names(s))
                => /\ last'.res = MI_RESULT_OK
                   /\ FindShell(ShellIdOf(s))' = NULL
                   /\ s \notin OnList'
                   /\ \A o \in ShellAddr \ {s} : Resolves(o) => Resolves(o)'
          /\ FindShell(last'.in.shellId) = NULL
                => /\ last'.res = MI_RESULT_NOT_FOUND
                   /\ UNCHANGED <<shellList, shellMem>>]_vars

\* a shell without a command was deleted while another shell is registered
C15_Witness ==
    /\ last.op = "DeleteInstance"
    /\ last.res = MI_RESULT_OK
    /\ \E s \in ShellAddr :
          /\ ~shellMem[s].live
          /\ shellMem[s].command = NULL
          /\ ShellIdOf(s) = last.in.shellId
          /\ \E o \in ShellAddr \ {s} : Resolves(o)

\* DeleteInstance answered NotFound
C15_UnknownIsReached ==
    last.op = "DeleteInstance" /\ last.res = MI_RESULT_NOT_FOUND /\ shellList # NULL

\* The provider, new or with a command attached, served by whole calls and by
\* the steps of CreateInstance and DeleteInstance calls that run side by side.
InitMixed == Init \/ InitAttached

NextMixed == Next \/ NextRegistry

SpecMixed == InitMixed /\ [][NextMixed]_vars

\* the live shells the list holds
LiveOnList == {a \in OnList : shellMem[a].live}

\* the live commands attached to live shells
Attached ==
    {k \in CmdAddr : cmdMem[k].live /\ \E a \in ShellAddr :
                        shellMem[a].live /\ shellMem[a].command = k}

C16_TwoCommandsReached == Cardinality(LiveOnList) >= 2 /\ Cardinality(Attached) >= 2

\* C17: the id of a shell that DeleteInstance removed is not given to the
\* shell the next CreateInstance makes, and does not resolve to that shell.
C17_IdIsNeverReissued ==
    [][(/\ last.op = "DeleteInstance"
        /\ last.res = MI_RESULT_OK
        /\ Called("CreateInstance"))
       => /\ \A a \in ShellAddr :
                (~shellMem[a].live /\ shellMem'[a].live)
                => ShellIdOf(a) # last.in.shellId
          /\ FindShell(last.in.shellId)' = NULL]_vars

Allowed == \A i \in DOMAIN last.xp : last.xp[i].status # "STATUS_UNSUCCESSFUL"

\* C19: for every buffer B and everything the compression may do with its
\* chunks, CompressBuffer(B, 0) succeeds, and DecompressBuffer of its result
\* succeeds and gives B back.
C19_RoundTrip ==
    /\ (last.op = "CompressBuffer" /\ last.alloc /\ Allowed)
       => last.res = MI_RESULT_OK
    /\ (last.op = "DecompressBuffer" /\ last.alloc /\ Allowed)
       => /\ last.res = MI_RESULT_OK
          /\ SubSeq(last.out.buffer, 1, last.out.bufferUsed) = last.in.buffer

RECURSIVE HeaderOffset(_, _)
\* where the header of chunk i starts in what CompressBuffer returned
HeaderOffset(sizes, i) ==
    IF i = 1 THEN 0
    ELSE HeaderOffset(sizes, i - 1) + SizeofCompressionHeader + sizes[i - 1].stored

\* C20: every header CompressBuffer writes holds the original size of its
\* chunk less one and the stored size less one, both within a USHORT for the
\* chunk sizes 1..MAX_COMPRESS_BUFFER_BLOCK, and DecompressBuffer takes from
\* every header one more than each field holds: the sizes of the chunk.
C20_HeaderSizes ==
    /\ (last.op = "CompressBuffer" /\ last.res = MI_RESULT_OK)
       => \A i \in DOMAIN last.sizes :
             LET at == HeaderOffset(last.sizes, i)
             IN /\ last.sizes[i].original \in 1..MAX_COMPRESS_BUFFER_BLOCK
                /\ last.sizes[i].stored \in 1..last.sizes[i].original
                /\ last.out.buffer[at + 1] = last.sizes[i].original - 1
                /\ last.out.buffer[at + 2] = last.sizes[i].stored - 1
                /\ last.out.buffer[at + 1] \in 0..(UShortRange - 1)
                /\ last.out.buffer[at + 2] \in 0..(UShortRange - 1)
    /\ (last.op = "DecompressBuffer" /\ last.res = MI_RESULT_OK)
       => last.read = last.sizes

\* a buffer with a chunk of the full size and a chunk of one byte, stored as
\* one byte under the header {0, 0}, went through both functions
C20_Witness ==
    /\ last.op = "DecompressBuffer"
    /\ last.res = MI_RESULT_OK
    /\ \E i, j \in DOMAIN last.read :
          /\ last.sizes[i].original = MAX_COMPRESS_BUFFER_BLOCK
          /\ last.read[j] = [original |-> 1, stored |-> 1]

\* C21: a CreateInstance call registers no shell whose stream declaration is
\* empty, and a CreateInstance call answered InvalidParameter or
\* ServerLimitsExceeded leaves the registry alone and asks nothing of the
\* backend.
C21_CreateRefusals ==
    [][Called("CreateInstance")
       => /\ \A a \in ShellAddr :
                (~shellMem[a].live /\ shellMem'[a].live)
                => shellMem'[a].outboundStreamNames # <<>>
          /\ last'.res \in {MI_RESULT_INVALID_PARAMETER, MI_RESULT_SERVER_LIMITS_EXCEEDED}
                => /\ UNCHANGED <<shellList, pendShell>>
                   /\ OnList' = OnList
                   /\ ~last'.fwd]_vars

\* C22: a Command call answered AlreadyExists leaves the command that is
\* attached as it was: still attached to its shell, alive, with the same done
\* flags and the same pending receive context, so that its id still resolves.
C22_RefusedCommandKeepsOld ==
    [][\A s \in ShellAddr :
          (/\ HasCommand(s)
           /\ Called("Command")
           /\ Names(s)
           /\ last'.res = MI_RESULT_ALREADY_EXISTS)
          => /\ shellMem'[s].command = shellMem[s].command
             /\ cmdMem'[shellMem[s].command] = cmdMem[shellMem[s].command]
             /\ HasCommand(s)']_vars

\* C23: the receive slot of a command holds nothing but the context of a
\* Receive call, a new command starts with the slot empty, and no handler
\* delivers a receive-result on the context of a Command call.
C23_CommandChannelIsItsOwn ==
    /\ \A k \in CmdAddr :
          (cmdMem[k].live /\ cmdMem[k].receiveContext # NULL)
          => calls[cmdMem[k].receiveContext].op = "Receive"
    /\ (last.to # NULL /\ last.rcv # <<>>) => calls[last.to].op = "Receive"

\* C24: a CreateInstance call that got as far as the backend has no reply
\* until the backend reports the context of the shell, and that report stores
\* the context on the shell and puts the reply on the context of the call.
C24_CreateRepliedByCallback ==
    [][/\ \A i \in DOMAIN calls :
             (calls[i].op = "CreateInstance" /\ calls'[i].nres > calls[i].nres)
             => last'.op \in {"ReportContext", "OperationComplete"}
       /\ \A a \in ShellAddr :
             (/\ a \in pendShell
              /\ shellMem[a].live
              /\ last'.op = "ReportContext"
              /\ ~last'.in.cmd
              /\ last'.in.shellId = ShellIdOf(a)
              /\ ~crashed')
             => /\ shellMem'[a].pluginShellContext # NULL
                /\ \E i \in DOMAIN calls :
                      /\ calls[i].op = "CreateInstance"
                      /\ calls'[i].nres = calls[i].nres + 1]_vars

\* C25: a Send with data that decodes, on a command whose receive slot is
\* empty, hands the data to the backend and answers Ok; it posts nothing on a
\* context that is not there and leaves the slot empty.
C25_SendWithoutReceive ==
    [][\A s \in ShellAddr :
          (/\ HasCommand(s)
           /\ cmdMem[shellMem[s].command].receiveContext = NULL
           /\ Called("Send")
           /\ NamesCommand(s)
           /\ last'.in.data = "P1")
          => /\ ~crashed'
             /\ last'.res = MI_RESULT_OK
             /\ last'.fwd
             /\ ~last'.nullUse
             /\ last'.to = NULL
             /\ last'.rcv = <<>>
             /\ cmdMem'[shellMem[s].command].receiveContext = NULL]_vars

\* the done flags C26 asks for: the first stream with the name is done, the
\* others are as they were
FirstMatchDone(streamName, names, done) ==
    LET hit == {i \in DOMAIN names : names[i] = streamName}
    IN IF hit = {} THEN done
       ELSE [done EXCEPT ![CHOOSE i \in hit : \A j \in hit : i <= j] = TRUE]

\* C26: a Send with endOfStream marks the first stream of the command that has
\* the name of the request as done and no other stream; with a name no stream
\* has, or without endOfStream, no flag changes; the name is no reason for an
\* error.
C26_EndOfStreamMarksItsStream ==
    [][\A s \in ShellAddr :
          (/\ HasCommand(s)
           /\ Called("Send")
           /\ NamesCommand(s)
           /\ last'.res = MI_RESULT_OK
           /\ ~crashed')
          => LET k == shellMem[s].command
             IN cmdMem'[k].done =
                   IF last'.in.endOfStream
                   THEN FirstMatchDone(last'.in.streamName, cmdMem[k].streamName,
                                       cmdMem[k].done)
                   ELSE cmdMem[k].done]_vars

\* C27: a Send answered Failed because its data does not decode leaves the
\* command as it was: the pending receive context is still in the slot, has got
\* nothing, and no done flag has changed.
C27_FailedSendKeepsState ==
    [][\A s \in ShellAddr :
          (/\ HasReceivePending(s)
           /\ Called("Send")
           /\ NamesCommand(s)
           /\ last'.in.data \in {"bad64", "badchunk"}
           /\ last'.res = MI_RESULT_FAILED)
          => LET k == shellMem[s].command
             IN /\ cmdMem'[k].receiveContext = cmdMem[k].receiveContext
                /\ cmdMem'[k].done = cmdMem[k].done
                /\ calls' = calls
                /\ last'.to = NULL]_vars

\* C28: a Signal that names a shell with a command, with the id of that
\* command or with no command id, frees and detaches the command and answers
\* Ok; when no Receive call is pending on the command it delivers no
\* receive-result on any context.
C28_SignalAlwaysDetaches ==
    [][\A s \in ShellAddr :
          (/\ HasCommand(s)
           /\ Called("Signal")
           /\ Names(s)
           /\ last'.in.cmd => last'.in.commandId = CommandIdOf(shellMem[s].command))
          => /\ ~crashed'
             /\ last'.res = MI_RESULT_OK
             /\ shellMem'[s].command = NULL
             /\ ~cmdMem'[shellMem[s].command].live
             /\ ~HasReceivePending(s)
                   => /\ last'.to = NULL
                      /\ last'.rcv = <<>>
                      /\ calls' = calls]_vars

\* C29: when the backend reports the context of a shell and the shell is taken
\* down because the report cannot be passed on, every other shell that was
\* found before is found afterwards.
C29_UnwindRemovesExactlyOne ==
    [][\A a \in ShellAddr :
          (/\ a \in pendShell
           /\ Resolves(a)
           /\ CleanList
           /\ last'.op = "ReportContext"
           /\ ~last'.in.cmd
           /\ last'.in.shellId = ShellIdOf(a)
           /\ ~crashed')
          => \A o \in ShellAddr \ {a} : Resolves(o) => Resolves(o)']_vars

RECURSIVE SumOriginal(_)
\* the original sizes of a list of chunks, added up
SumOriginal(read) ==
    IF read = <<>> THEN 0 ELSE Head(read).original + SumOriginal(Tail(read))

\* C30: the size DecompressBuffer computes before it decompresses is the sum
\* of the original sizes of the chunks in the used part of its input and is
\* the number of bytes it writes, whatever the allocated size of the input.
C30_PreScanIsExact ==
    (last.op = "DecompressBuffer" /\ last.res = MI_RESULT_OK)
    => /\ last.out.bufferLength = SumOriginal(last.read)
       /\ last.out.bufferLength = last.out.bufferUsed

\* C31: for every input length, every extra space and everything the
\* compression may do with a chunk (compress it to any size up to the chunk
\* size, or leave it to be stored verbatim), CompressBuffer stays within the
\* output it sized beforehand: after each chunk bufferUsed is at most
\* sizeof(CompressionHeader) * numChunks + inputLength, the space check in the
\* loop never fails, and on success at least extraSpaceToAllocate bytes are
\* free behind the last chunk.
C31_CompressStaysInBounds ==
    (last.op = "CompressBuffer" /\ last.alloc /\ Allowed)
    => /\ \A k \in 1..Len(last.sizes) :
             HeaderOffset(last.sizes, k + 1)
                <= SizeofCompressionHeader * NumChunks(last.in.bufferUsed)
                   + last.in.bufferUsed
       /\ last.res = MI_RESULT_OK
       /\ last.out.bufferLength - last.out.bufferUsed >= last.extra

\* the length of the base64 text of n bytes: four characters for every three
\* bytes or part of them
Base64Length(n) == 4 * ((n + 2) \div 3)

\* C32: for every input length n the buffer Base64EncodeBuffer allocates
\* holds the whole base64 text of n bytes, 4 * ceil(n / 3) characters, and
\* one terminator behind it, so that the encoding never fails for lack of
\* space; a result that would leave less than a terminator free is Failed and
\* returns no buffer.
C32_EncodeBufferIsLargeEnough ==
    (last.op = "Base64EncodeBuffer" /\ last.alloc)
    => /\ last.out.bufferLength >= Base64Length(last.in.bufferUsed) + SizeofMI_Char
       /\ last.res = MI_RESULT_OK
       /\ last.out.bufferUsed = Base64Length(last.in.bufferUsed)
       /\ last.out.bufferLength - last.out.bufferUsed >= SizeofMI_Char
====
